---------------------------- MODULE Spec2Model ----------------------------
(***************************************************************************)
(* Model of build_binary.py: the BinaryBuilder class (construction, build, *)
(* _get_binary_suffix, _move_binary_to_output, _create_version_info,       *)
(* clean) and the command-line entry point main().                         *)
(*                                                                         *)
(* The filesystem is a function from paths (sequences of path components,  *)
(* relative to the current directory) to nodes.  The packaging tool, the   *)
(* `date` utility and argparse are the program's environment: each is      *)
(* modelled by the outcomes it can hand back to the code.                  *)
(* A filesystem call raises when the state of the filesystem makes it      *)
(* raise (a missing or existing path, a file where a directory is needed,  *)
(* the same file as source and destination); permissions and I/O errors    *)
(* are not modelled.  An exception nobody catches ends the process with    *)
(* status 1.                                                               *)
(***************************************************************************)
EXTENDS Naturals, Integers, Sequences, FiniteSets, TLC

VARIABLES
    pc,        \* position in main(): "parse", "construct", "build", "clean", "exit", "done"
    args,      \* the parsed command line (argparse namespace) and whether it parsed
    host,      \* platform.system().lower(), platform.machine().lower()
    fs,        \* the filesystem below the current directory
    fs0,       \* the filesystem when the process started
    fsTool,    \* the filesystem when the packaging tool returned
    self,      \* the BinaryBuilder instance
    cmd,       \* the argument vector handed to subprocess.run
    tool,      \* what the packaging tool did in this run
    log,       \* the calls made so far, in order
    success,   \* build()'s return value: "unset", "true", "false"
    exc,       \* the uncaught exception, "none" when there is none
    exitCode,  \* the process exit status, -1 while running
    fsFirst,   \* clean() twice: the filesystem after the first clean()
    excFirst   \* clean() twice: the exception of the first clean()

vars == <<pc, args, host, fs, fs0, fsTool, self, cmd, tool, log, success, exc,
          exitCode, fsFirst, excFirst>>

-----------------------------------------------------------------------------
(* Filesystem: pathlib / shutil / os as the code uses them.                *)

File(data, mode) == [kind |-> "file", data |-> data, mode |-> mode]

Dir == [kind |-> "dir", data |-> <<>>, mode |-> "dir"]

EmptyFS == [p \in {} |-> Dir]

\* Path.exists(); the current directory <<>> always exists.
Exists(f, p) == p = <<>> \/ p \in DOMAIN f

\* Path.is_file()
IsFile(f, p) == p \in DOMAIN f /\ f[p].kind = "file"

IsDir(f, p) == p = <<>> \/ (p \in DOMAIN f /\ f[p].kind = "dir")

IsPrefix(a, p) == Len(a) <= Len(p) /\ SubSeq(p, 1, Len(a)) = a

Prefixes(p) == {SubSeq(p, 1, n) : n \in 1..Len(p)}

Tail_(a, p) == SubSeq(p, Len(a) + 1, Len(p))

Restrict(f, S) == [p \in S |-> f[p]]

\* The filesystem with the whole tree at p gone.
Without(f, p) == Restrict(f, {q \in DOMAIN f : ~IsPrefix(p, q)})

\* The filesystem with node n at path p (its parent exists).
Put(f, p, n) == (p :> n) @@ f

\* The tree below (and including) src, re-rooted at dst.
Rerooted(f, src, dst) ==
    LET S == {q \in DOMAIN f : IsPrefix(src, q)}
    IN  [p \in {dst \o Tail_(src, q) : q \in S} |->
            f[src \o Tail_(dst, p)]]

\* A step of a method body: s = [fs, exc, log].  A step after a raised
\* exception does not run.
Ran(s, call) == [s EXCEPT !.log = Append(@, call)]

Raise(s, e) == [s EXCEPT !.exc = e]

\* Path.mkdir(parents=True, exist_ok=True)
mkdir(s, p) ==
    IF s.exc # "none" THEN s
    ELSE LET t == Ran(s, "mkdir")
         IN  IF \E q \in Prefixes(p) : IsFile(t.fs, q)
             THEN Raise(t, "FileExistsError")
             ELSE [t EXCEPT !.fs =
                     [q \in Prefixes(p) \ DOMAIN t.fs |-> Dir] @@ t.fs]

\* shutil.copy2(src, dst): into dst when dst is a directory; the same file
\* is refused; contents and mode are those of src.
copy2(s, src, dst) ==
    IF s.exc # "none" THEN s
    ELSE LET t    == Ran(s, "copy2")
             real == IF IsDir(t.fs, dst) THEN dst \o <<src[Len(src)]>> ELSE dst
         IN  IF real = src THEN Raise(t, "SameFileError")
             ELSE IF IsDir(t.fs, real) THEN Raise(t, "IsADirectoryError")
             ELSE [t EXCEPT !.fs = Put(t.fs, real, t.fs[src])]

\* os.chmod(p, 0o755)
chmod(s, p) ==
    IF s.exc # "none" THEN s
    ELSE LET t == Ran(s, "chmod")
         IN  IF ~Exists(t.fs, p) THEN Raise(t, "FileNotFoundError(chmod)")
             ELSE [t EXCEPT !.fs = [@ EXCEPT ![p].mode = "0o755"]]

\* shutil.rmtree(p): refuses what is not a directory.
rmtree(s, p) ==
    IF s.exc # "none" THEN s
    ELSE LET t == Ran(s, "rmtree")
         IN  IF ~Exists(t.fs, p) THEN Raise(t, "FileNotFoundError(rmtree)")
             ELSE IF ~IsDir(t.fs, p) THEN Raise(t, "NotADirectoryError")
             ELSE [t EXCEPT !.fs = Without(t.fs, p)]

\* shutil.copytree(src, dst): src is listed first, then dst is created and
\* must not exist.
copytree(s, src, dst) ==
    IF s.exc # "none" THEN s
    ELSE LET t == Ran(s, "copytree")
         IN  IF ~Exists(t.fs, src) THEN Raise(t, "FileNotFoundError(copytree)")
             ELSE IF Exists(t.fs, dst) THEN Raise(t, "FileExistsError")
             ELSE [t EXCEPT !.fs = Rerooted(t.fs, src, dst) @@ t.fs]


-----------------------------------------------------------------------------
(* The command line and the host.                                          *)

Scripts == {"app.py"}

OutputDirs == {"./bin", "dist", "build"}

Names == {"", "tool"}            \* "" is --name not given (None)

\* "" is --icon not given (None); icon.ico exists, missing.ico does not.
Icons == {"", "icon.ico", "missing.ico"}

\* pathlib.Path(text): the components of the path, "." and "./" dropped.
Path(text) ==
    CASE text = "./bin"    -> <<"bin">>
      [] text = "dist"     -> <<"dist">>
      [] text = "build"    -> <<"build">>
      [] text = "app.py"   -> <<"app.py">>
      [] text = "icon.ico" -> <<"icon.ico">>
      [] OTHER             -> <<text>>

\* Path.stem: the last component without its last extension.
Stem(p) ==
    CASE p[Len(p)] = "app.py" -> "app"
      [] OTHER                -> p[Len(p)]

-----------------------------------------------------------------------------
(* BinaryBuilder                                                           *)

NoBuilder ==
    [script |-> "", script_path |-> <<>>, output_dir |-> <<>>,
     binary_name |-> "", platform |-> "", arch |-> ""]

\* BinaryBuilder.__init__ up to the existence check: the fields.
NewBuilder(script_path, output_dir, binary_name, h) ==
    [script      |-> script_path,
     script_path |-> Path(script_path),
     output_dir  |-> Path(output_dir),
     binary_name |-> IF binary_name # "" THEN binary_name
                     ELSE Stem(Path(script_path)),
     platform    |-> h.platform,
     arch        |-> h.arch]

\* Variant: the Linux suffix without the architecture, the macOS one as .app.
SuffixWithoutArch(b) ==
    IF b.platform = "windows" THEN ".exe"
    ELSE IF b.platform = "darwin" THEN ".app"
    ELSE IF b.platform = "linux" THEN "-linux"
    ELSE ""

_get_binary_suffix(b) ==
    IF b.platform = "windows" THEN ".exe"
    ELSE IF b.platform = "darwin" THEN "-macos"
    ELSE IF b.platform = "linux" THEN "-linux-" \o b.arch
    ELSE ""

FinalName(b) == b.binary_name \o _get_binary_suffix(b)

hidden_imports ==
    <<"pandas", "numpy", "requests", "cryptography", "boto3", "paramiko",
      "yaml", "json">>

RECURSIVE HiddenImportArgs(_)
HiddenImportArgs(imps) ==
    IF imps = <<>> THEN <<>>
    ELSE <<"--hidden-import", Head(imps)>> \o HiddenImportArgs(Tail(imps))

\* The PyInstaller command line build() composes.
Command(b, f, one_file, console, icon) ==
    <<"pyinstaller", "--clean", "--noconfirm">>
    \o <<IF one_file THEN "--onefile" ELSE "--onedir">>
    \o <<IF console THEN "--console" ELSE "--windowed">>
    \o (IF icon # "" /\ Exists(f, Path(icon)) THEN <<"--icon", icon>> ELSE <<>>)
    \o <<"--name", FinalName(b)>>
    \o HiddenImportArgs(hidden_imports)
    \o <<b.script>>

\* _create_version_info: the record, then version.json written in output_dir.
\* date is what the `date` child process gave: its output, or "missing"
\* when no such executable is found.
_create_version_info(b, s, output_dir, date) ==
    IF s.exc # "none" THEN s
    ELSE LET t            == Ran(s, "date")
             version_file == output_dir \o <<"version.json">>
             version_info == <<"binary_name", b.binary_name,
                               "script", b.script,
                               "platform", b.platform,
                               "architecture", b.arch,
                               "build_date", date>>
         IN  IF date = "missing" THEN Raise(t, "FileNotFoundError(date)")
             ELSE LET u == Ran(t, "write_version")
                  IN  IF IsDir(u.fs, version_file)
                      THEN Raise(u, "IsADirectoryError")
                      ELSE [u EXCEPT !.fs = Put(u.fs, version_file,
                              File(version_info,
                                   IF Exists(u.fs, version_file)
                                   THEN u.fs[version_file].mode
                                   ELSE "default"))]

\* The artifact lookup of _move_binary_to_output: the suffixed name first,
\* then the bare binary name.
SourceBinary(b, f, binary_name) ==
    IF Exists(f, <<"dist", binary_name>>) THEN <<"dist", binary_name>>
    ELSE <<"dist", b.binary_name>>

CopyFile(b, s, source_binary, dest_binary) ==
    LET c == copy2(s, source_binary, dest_binary)
    IN  IF b.platform \in {"linux", "darwin"} THEN chmod(c, dest_binary) ELSE c

CopyDirectory(s, source_binary, dest_binary) ==
    copytree(IF Exists(s.fs, dest_binary) THEN rmtree(s, dest_binary) ELSE s,
             source_binary, dest_binary)

\* Variant: the version record is written although nothing was found.
NotFoundWritesRecord(b, s, date) ==
    _create_version_info(b, Ran(s, "warning"), b.output_dir, date)

\* No artifact at either place: a warning, nothing else.
NotFound(b, s, date) == Ran(s, "warning")

_move_binary_to_output(b, s, binary_name, date) ==
    LET m             == mkdir(s, b.output_dir)
        source_binary == SourceBinary(b, m.fs, binary_name)
        dest_binary   == b.output_dir \o <<binary_name>>
    IN  IF m.exc # "none" THEN m
        ELSE IF Exists(m.fs, source_binary)
        THEN LET c == IF IsFile(m.fs, source_binary)
                      THEN CopyFile(b, m, source_binary, dest_binary)
                      ELSE CopyDirectory(m, source_binary, dest_binary)
             IN  _create_version_info(b, c, SubSeq(dest_binary, 1,
                                                   Len(dest_binary) - 1), date)
        ELSE NotFound(b, m, date)

-----------------------------------------------------------------------------
(* The packaging tool (PyInstaller) as a child process.                    *)

NoOutcome == [status |-> "unset", place |-> "none"]

\* What subprocess.run(cmd, check=True) can meet: no such executable, a
\* non-zero exit, or a zero exit with the artifact under dist at the name
\* given by --name ("suffixed"), at the bare binary name ("bare"), or at
\* neither ("none").
Outcomes ==
    {[status |-> "missing", place |-> "none"],
     [status |-> "nonzero", place |-> "none"]}
    \cup [status : {"ok"}, place : {"none", "suffixed", "bare"}]

AddDir(f, p) == IF Exists(f, p) THEN f ELSE Put(f, p, Dir)

\* --onefile gives one executable file, --onedir a directory holding the
\* executable and its dependencies.
Artifact(b, one_file, target) ==
    IF one_file THEN target :> File(<<"exe", "new">>, "tool")
    ELSE (target :> Dir)
         @@ (target \o <<b.binary_name>> :> File(<<"exe", "new">>, "tool"))
         @@ (target \o <<"_internal">> :> Dir)
         @@ (target \o <<"_internal", "base_library.zip">> :>
                File(<<"zip", "new">>, "tool"))

\* The filesystem the tool leaves: its work directory build and its
\* descriptor <name>.spec, and on a zero exit dist with the artifact, which
\* replaces what was at its place.
PackagerEffect(f, b, one_file, out) ==
    LET final  == FinalName(b)
        worked == Put(AddDir(f, <<"build">>), <<final \o ".spec">>,
                      File(<<"spec", final>>, "default"))
        target == <<"dist", IF out.place = "suffixed" THEN final
                            ELSE b.binary_name>>
    IN  IF out.status = "missing" THEN f
        ELSE IF out.status = "nonzero" THEN worked
        ELSE IF out.place = "none" THEN AddDir(worked, <<"dist">>)
        ELSE Artifact(b, one_file, target)
             @@ Without(AddDir(worked, <<"dist">>), target)

-----------------------------------------------------------------------------
(* BinaryBuilder.build and BinaryBuilder.clean                             *)

MoveBinary(b, s, binary_name, date) ==
    LET m == _move_binary_to_output(b, [fs |-> s.fs, exc |-> s.exc, log |-> s.log],
                                    binary_name, date)
    IN  [s EXCEPT !.fs = m.fs, !.exc = m.exc, !.log = m.log]

\* Variant: the post-build steps run although the tool failed.
BuildFailedThenMoves(b, s, date) ==
    [MoveBinary(b, s, FinalName(b), date) EXCEPT !.ret = "false"]

\* except subprocess.CalledProcessError: report and return False.
BuildFailed(b, s, date) == [s EXCEPT !.ret = "false"]

\* build(): s = [fs, exc, log]; the result adds cmd, ret (the return
\* value, "unset" when an exception leaves build) and fsTool.
build(b, s, one_file, console, icon, out, date) ==
    LET c    == Command(b, s.fs, one_file, console, icon)
        ran  == [fs     |-> PackagerEffect(s.fs, b, one_file, out),
                 exc    |-> "none",
                 log    |-> Append(s.log, "pyinstaller"),
                 cmd    |-> c,
                 ret    |-> "unset",
                 fsTool |-> PackagerEffect(s.fs, b, one_file, out)]
    IN  IF out.status = "missing"
        THEN [ran EXCEPT !.exc = "FileNotFoundError(pyinstaller)"]
        ELSE IF out.status = "nonzero" THEN BuildFailed(b, ran, date)
        ELSE LET m == MoveBinary(b, ran, FinalName(b), date)
             IN  IF m.exc # "none" THEN m ELSE [m EXCEPT !.ret = "true"]

Stems ==
    {n \o x : n \in {"app", "tool"},
              x \in {"", ".exe", "-macos", "-linux-x86_64", "-linux-aarch64"}}
    \cup {"old"}

\* Path(".").glob("*.spec"): the entries of the current directory whose
\* name ends in ".spec".
SpecFiles(f) ==
    {p \in DOMAIN f : Len(p) = 1 /\ \E n \in Stems : p[1] = n \o ".spec"}

\* Variant: rmtree without the exists() test.
RemoveDirUnchecked(s, dir_name) == rmtree(s, <<dir_name>>)

\* if dir_path.exists(): shutil.rmtree(dir_path)
RemoveDir(s, dir_name) ==
    IF Exists(s.fs, <<dir_name>>) THEN rmtree(s, <<dir_name>>) ELSE s

\* clean(): the three directories in order, then every *.spec entry is
\* unlinked.  unlink raises on a directory; glob's order is the directory
\* listing's, so any of the matching files may have gone by then.
clean(s) ==
    LET d     == RemoveDir(RemoveDir(RemoveDir(Ran(s, "clean"), "build"),
                                     "dist"), "__pycache__")
        found == SpecFiles(d.fs)
        files == {p \in found : IsFile(d.fs, p)}
    IN  IF d.exc # "none" THEN {d}
        ELSE IF files = found
        THEN {[d EXCEPT !.fs = Restrict(d.fs, DOMAIN d.fs \ files)]}
        ELSE {[d EXCEPT !.fs  = Restrict(d.fs, DOMAIN d.fs \ gone),
                        !.exc = "IsADirectoryError"] : gone \in SUBSET files}

-----------------------------------------------------------------------------
(* main(): one run of the command-line program.                            *)

Hosts ==
    {[platform |-> "windows", arch |-> "amd64"],
     [platform |-> "darwin",  arch |-> "arm64"],
     [platform |-> "linux",   arch |-> "x86_64"],
     [platform |-> "linux",   arch |-> "aarch64"],
     [platform |-> "freebsd", arch |-> "amd64"]}

DefaultArgs ==
    [parse |-> "ok", script |-> "app.py", output_dir |-> "./bin", name |-> "",
     one_folder |-> FALSE, windowed |-> FALSE, icon |-> "", clean |-> FALSE]

\* parser.parse_args(): a namespace, or the process ends there: status 2
\* on a usage error (no script, an unknown option), status 0 after --help.
ArgSets ==
    [parse : {"ok"}, script : Scripts, output_dir : OutputDirs, name : Names,
     one_folder : BOOLEAN, windowed : BOOLEAN, icon : Icons, clean : BOOLEAN]
    \cup {[DefaultArgs EXCEPT !.parse = "usage"],
          [DefaultArgs EXCEPT !.parse = "help"]}

Now == "2024-06-01 12:00:00"

\* The output of `date +%Y-%m-%d %H:%M:%S`.  date is a POSIX utility;
\* Windows has no date executable (it is a builtin of cmd.exe), unless one
\* was installed on the PATH.
Dates(h) == IF h.platform = "windows" THEN {"missing", Now} ELSE {Now}

OldRecord(b) ==
    File(<<"binary_name", b.binary_name, "script", b.script,
           "platform", b.platform, "architecture", b.arch,
           "build_date", "2024-01-01 00:00:00">>, "default")

\* What earlier runs left in the output directory: nothing ("absent"), the
\* directory alone ("empty"), a one-file build ("file") or a one-folder
\* build ("dir") of the same name with its version.json.
OutputBefore(b, before) ==
    LET od   == b.output_dir
        dest == od \o <<FinalName(b)>>
        rec  == (od \o <<"version.json">>) :> OldRecord(b)
    IN  CASE before = "absent" -> EmptyFS
          [] before = "empty"  -> od :> Dir
          [] before = "file"   ->
                (od :> Dir) @@ (dest :> File(<<"exe", "old">>, "0o755")) @@ rec
          [] before = "dir"    ->
                (od :> Dir) @@ (dest :> Dir)
                @@ (dest \o <<b.binary_name>> :> File(<<"exe", "old">>, "tool"))
                @@ (dest \o <<"stale.dat">> :> File(<<"data", "old">>, "default"))
                @@ rec

\* An entry of the current directory: absent, a directory holding one file,
\* or a regular file.
Entry(p, kind) ==
    CASE kind = "absent" -> EmptyFS
      [] kind = "dir"    -> (p :> Dir)
                            @@ (p \o <<"member">> :> File(<<"data">>, "default"))
      [] kind = "file"   -> p :> File(<<"data">>, "default")

Kinds == {"absent", "dir", "file"}

InitialFS(b, scriptExists, before, pycache) ==
    (IF scriptExists THEN b.script_path :> File(<<"py">>, "default") ELSE EmptyFS)
    @@ (<<"icon.ico">> :> File(<<"ico">>, "default"))
    @@ Entry(<<"__pycache__">>, pycache)
    @@ OutputBefore(b, before)

Init ==
    /\ pc = "parse"
    /\ args \in ArgSets
    /\ host \in Hosts
    /\ \E scriptExists \in BOOLEAN, pycache \in Kinds,
          before \in {"absent", "empty", "file", "dir"} :
          fs = InitialFS(NewBuilder(args.script, args.output_dir, args.name, host),
                         scriptExists, before, pycache)
    /\ args.parse # "ok" => fs = InitialFS(NewBuilder(args.script, args.output_dir,
                                                       args.name, host),
                                           TRUE, "absent", "absent")
    /\ fs0 = fs
    /\ fsTool = fs
    /\ self = NoBuilder
    /\ cmd = <<>>
    /\ tool = NoOutcome
    /\ log = <<>>
    /\ success = "unset"
    /\ exc = "none"
    /\ exitCode = -1
    /\ fsFirst = EmptyFS
    /\ excFirst = "none"

ParseArgs ==
    /\ pc = "parse"
    /\ IF args.parse = "ok"
       THEN pc' = "construct" /\ exitCode' = exitCode
       ELSE pc' = "done" /\ exitCode' = IF args.parse = "usage" THEN 2 ELSE 0
    /\ UNCHANGED <<args, host, fs, fs0, fsTool, self, cmd, tool, log, success,
                   exc, fsFirst, excFirst>>

\* Variant: the constructor without its existence check.
ScriptFoundAlways(b, f) == TRUE

\* if not self.script_path.exists(): raise FileNotFoundError
ScriptFound(b, f) == Exists(f, b.script_path)

\* builder = BinaryBuilder(args.script, args.output_dir, args.name).  An
\* exception nobody catches ends the process with status 1.
Construct ==
    /\ pc = "construct"
    /\ self' = NewBuilder(args.script, args.output_dir, args.name, host)
    /\ IF ScriptFound(self', fs)
       THEN pc' = "build" /\ UNCHANGED <<exc, exitCode>>
       ELSE pc' = "done" /\ exc' = "FileNotFoundError(script)" /\ exitCode' = 1
    /\ UNCHANGED <<args, host, fs, fs0, fsTool, cmd, tool, log, success,
                   fsFirst, excFirst>>

\* success = builder.build(one_file=not args.one_folder,
\*                         console=not args.windowed, icon=args.icon)
Build ==
    /\ pc = "build"
    /\ \E out \in Outcomes, date \in Dates(host) :
          LET r == build(self, [fs |-> fs, exc |-> "none", log |-> log],
                         ~args.one_folder, ~args.windowed, args.icon, out, date)
          IN  /\ tool' = out
              /\ fs' = r.fs
              /\ fsTool' = r.fsTool
              /\ cmd' = r.cmd
              /\ log' = r.log
              /\ success' = r.ret
              /\ exc' = r.exc
              /\ IF r.exc # "none"
                 THEN pc' = "done" /\ exitCode' = 1
                 ELSE pc' = "clean" /\ exitCode' = exitCode
    /\ UNCHANGED <<args, host, fs0, self, fsFirst, excFirst>>

\* Variant: --clean alone decides.
ShouldCleanIgnoringResult(a, ok) == a.clean

\* if args.clean and success:
ShouldClean(a, ok) == a.clean /\ ok = "true"

CleanIfRequested ==
    /\ pc = "clean"
    /\ IF ShouldClean(args, success)
       THEN \E r \in clean([fs |-> fs, exc |-> "none", log |-> log]) :
               /\ fs' = r.fs
               /\ log' = r.log
               /\ exc' = r.exc
               /\ IF r.exc # "none"
                  THEN pc' = "done" /\ exitCode' = 1
                  ELSE pc' = "exit" /\ exitCode' = exitCode
       ELSE pc' = "exit" /\ UNCHANGED <<fs, log, exc, exitCode>>
    /\ UNCHANGED <<args, host, fs0, fsTool, self, cmd, tool, success,
                   fsFirst, excFirst>>

\* Variant: the exit status does not look at build()'s result.
ExitStatusZero(ok) == 0

\* sys.exit(0 if success else 1)
ExitStatus(ok) == IF ok = "true" THEN 0 ELSE 1

Exit ==
    /\ pc = "exit"
    /\ exitCode' = ExitStatus(success)
    /\ pc' = "done"
    /\ UNCHANGED <<args, host, fs, fs0, fsTool, self, cmd, tool, log, success,
                   exc, fsFirst, excFirst>>

Next == ParseArgs \/ Construct \/ Build \/ CleanIfRequested \/ Exit

Spec == Init /\ [][Next]_vars

-----------------------------------------------------------------------------
(* clean() called twice in a row on one builder, from any state of the     *)
(* current directory.                                                      *)

CleanStates ==
    {(<<"app.py">> :> File(<<"py">>, "default"))
     @@ Entry(<<"build">>, b) @@ Entry(<<"dist">>, d)
     @@ Entry(<<"__pycache__">>, c)
     @@ Entry(<<"app.spec">>, x) @@ Entry(<<"old.spec">>, y) :
        b \in Kinds, d \in Kinds, c \in Kinds, x \in Kinds, y \in Kinds}

InitClean ==
    /\ pc = "clean0"
    /\ args = DefaultArgs
    /\ host \in Hosts
    /\ fs \in CleanStates
    /\ fs0 = fs
    /\ fsTool = fs
    /\ self = NewBuilder(args.script, args.output_dir, args.name, host)
    /\ cmd = <<>>
    /\ tool = NoOutcome
    /\ log = <<>>
    /\ success = "unset"
    /\ exc = "none"
    /\ exitCode = -1
    /\ fsFirst = EmptyFS
    /\ excFirst = "none"

CleanFirst ==
    /\ pc = "clean0"
    /\ \E r \in clean([fs |-> fs, exc |-> "none", log |-> log]) :
          /\ fs' = r.fs
          /\ fsFirst' = r.fs
          /\ excFirst' = r.exc
          /\ log' = r.log
    /\ pc' = "clean1"
    /\ UNCHANGED <<args, host, fs0, fsTool, self, cmd, tool, success, exc, exitCode>>

CleanSecond ==
    /\ pc = "clean1"
    /\ \E r \in clean([fs |-> fs, exc |-> "none", log |-> log]) :
          /\ fs' = r.fs
          /\ exc' = r.exc
          /\ log' = r.log
    /\ pc' = "clean2"
    /\ UNCHANGED <<args, host, fs0, fsTool, self, cmd, tool, success, exitCode,
                   fsFirst, excFirst>>

NextClean == CleanFirst \/ CleanSecond

SpecClean == InitClean /\ [][NextClean]_vars

-----------------------------------------------------------------------------
(* Properties.                                                             *)

InLog(call) == \E i \in 1..Len(log) : log[i] = call

\* build() is over (it returned or raised) and clean() has not run: fs is
\* the filesystem build() left.
AfterBuild == InLog("pyinstaller") /\ ~InLog("clean")

Dest == self.output_dir \o <<FinalName(self)>>

VersionFile == self.output_dir \o <<"version.json">>

Under(f, p) == Restrict(f, {q \in DOMAIN f : IsPrefix(p, q)})

Copied == InLog("copy2") \/ InLog("copytree")

\* Where the tool put this run's artifact.
ToolTarget ==
    <<"dist", IF tool.place = "suffixed" THEN FinalName(self)
              ELSE self.binary_name>>

\* C1: when the source script does not exist, the run fails with the
\* script-not-found error, the packaging tool is never invoked and nothing
\* (output directory, artifact, version.json) is created.
C1_MissingScriptFailsBeforeTool ==
    (args.parse = "ok" /\ ~Exists(fs0, Path(args.script)))
    => /\ log = <<>>
       /\ cmd = <<>>
       /\ fs = fs0
       /\ success = "unset"
       /\ pc \in {"parse", "construct", "done"}
       /\ pc = "done" => (exc = "FileNotFoundError(script)" /\ exitCode = 1)

C1_Witness ==
    /\ pc = "done"
    /\ ~Exists(fs0, Path(args.script))
    /\ exc = "FileNotFoundError(script)"
    /\ args.clean

\* C2 as stated: for every invocation the exit code is 0 exactly when build
\* reported success and 1 otherwise.
C2_ExitCodeEveryInvocation ==
    pc = "done" => /\ exitCode = 0 <=> success = "true"
                   /\ exitCode \in {0, 1}

\* C2 amended: for every invocation whose command line argparse accepts,
\* the exit code is 0 exactly when build reported success and the cleanup,
\* if it ran, raised nothing; it is 1 otherwise.
C2_ExitCodeOfParsedInvocation ==
    (pc = "done" /\ args.parse = "ok")
    => /\ exitCode = 0 <=> (success = "true" /\ exc = "none")
       /\ exitCode \in {0, 1}

C2_Witness ==
    /\ pc = "done"
    /\ args.parse = "ok"
    /\ args.clean
    /\ InLog("clean")
    /\ exitCode = 0
    /\ success = "true"

\* C3: when the tool exits successfully and a file artifact is at
\* dist/<name><suffix>, build copies it to <output-dir>/<name><suffix>,
\* writes version.json beside it with its five fields, and returns success.
C3_FileArtifactRelocated ==
    (/\ AfterBuild
     /\ tool.status = "ok" /\ tool.place = "suffixed"
     /\ IsFile(fsTool, <<"dist", FinalName(self)>>))
    => /\ success = "true"
       /\ IsFile(fs, Dest)
       /\ fs[Dest].data = fsTool[<<"dist", FinalName(self)>>].data
       /\ IsFile(fs, VersionFile)
       /\ fs[VersionFile].data =
             <<"binary_name", self.binary_name, "script", args.script,
               "platform", host.platform, "architecture", host.arch,
               "build_date", Now>>

\* C4: when the tool exits successfully, the located artifact is a
\* directory and a directory was already at the destination, the
\* destination afterwards holds exactly the contents of the new artifact.
C4_DirectoryReplaced ==
    LET src == SourceBinary(self, fsTool, FinalName(self))
    IN  (/\ AfterBuild
         /\ tool.status = "ok" /\ tool.place # "none"
         /\ src = ToolTarget
         /\ src \in DOMAIN fsTool /\ IsDir(fsTool, src)
         /\ Dest \in DOMAIN fs0 /\ IsDir(fs0, Dest)
         /\ IsDir(fsTool, Dest))
        => Under(fs, Dest) = Rerooted(fsTool, src, Dest)

\* C5: when the tool exits successfully and no artifact is at
\* dist/<name><suffix> nor at dist/<name>, build returns success, nothing
\* is copied and no version.json is written.
C5_NotFoundStillSucceeds ==
    (/\ AfterBuild
     /\ tool.status = "ok"
     /\ ~Exists(fsTool, <<"dist", FinalName(self)>>)
     /\ ~Exists(fsTool, <<"dist", self.binary_name>>))
    => /\ success = "true"
       /\ exc = "none"
       /\ ~Copied
       /\ ~InLog("write_version")
       /\ Restrict(fs, DOMAIN fsTool) = fsTool
       /\ DOMAIN fs \ DOMAIN fsTool \subseteq Prefixes(self.output_dir)

C5_Witness ==
    /\ pc = "clean"
    /\ tool.status = "ok"
    /\ ~Exists(fsTool, <<"dist", FinalName(self)>>)
    /\ ~Exists(fsTool, <<"dist", self.binary_name>>)
    /\ InLog("warning")
    /\ success = "true"
    /\ VersionFile \in DOMAIN fs0

\* C6: when the tool exits with a non-zero status, build returns failure
\* after exactly one invocation of the tool and does none of the post-build
\* steps: no output directory is created, nothing is copied, no
\* version.json is written.
C6_ToolFailureEndsBuild ==
    (InLog("pyinstaller") /\ tool.status = "nonzero")
    => /\ success = "false"
       /\ exc = "none"
       /\ log = <<"pyinstaller">>
       /\ fs = fsTool

C6_Witness ==
    /\ pc = "done"
    /\ tool.status = "nonzero"
    /\ exitCode = 1
    /\ ~Exists(fs, self.output_dir)

Cleaned(f) ==
    /\ \A d \in {"build", "dist", "__pycache__"} : ~Exists(f, <<d>>)
    /\ SpecFiles(f) = {}

\* C7 as stated: from any filesystem state, the second of two clean() runs
\* raises nothing and leaves the state of the first, with build, dist,
\* __pycache__ and every *.spec entry absent.
C7_CleanTwiceAnyState ==
    pc = "clean2" => (exc = "none" /\ fs = fsFirst /\ Cleaned(fs))

\* The states clean() is written for: build, dist and __pycache__ are
\* directories when present, the *.spec entries regular files.
WellKinded(f) ==
    /\ \A d \in {"build", "dist", "__pycache__"} :
          Exists(f, <<d>>) => IsDir(f, <<d>>)
    /\ \A p \in SpecFiles(f) : IsFile(f, p)

\* C7 amended: from any filesystem state in which build, dist and
\* __pycache__ are directories or absent and every *.spec entry is a
\* regular file, neither of two clean() runs raises, the second leaves the
\* state of the first, and build, dist, __pycache__ and every *.spec file
\* are absent; nothing else is touched.
C7_CleanTwiceIdempotent ==
    (pc = "clean2" /\ WellKinded(fs0))
    => /\ excFirst = "none"
       /\ exc = "none"
       /\ fs = fsFirst
       /\ Cleaned(fs)
       /\ fs = Restrict(fs0, {p \in DOMAIN fs0 :
                                 /\ p[1] \notin {"build", "dist", "__pycache__"}
                                 /\ p \notin SpecFiles(fs0)})

C7_Witness ==
    /\ pc = "clean2"
    /\ WellKinded(fs0)
    /\ IsDir(fs0, <<"build">>)
    /\ ~Exists(fs0, <<"dist">>)
    /\ SpecFiles(fs0) # {}
    /\ exc = "none"

SuffixTable ==
    CASE host.platform = "windows" -> ".exe"
      [] host.platform = "darwin"  -> "-macos"
      [] host.platform = "linux"   -> "-linux-" \o host.arch
      [] OTHER                     -> ""

\* C8: the suffix is .exe on windows, -macos on darwin, -linux-<arch> on
\* linux and empty on any other platform; the name given to the packager
\* and used for the destination is the binary name followed by it.
C8_SuffixAndName ==
    LET named == self.binary_name \o SuffixTable
    IN  cmd # <<>>
        => /\ \E i \in 1..(Len(cmd) - 1) : cmd[i] = "--name" /\ cmd[i + 1] = named
           /\ \A i \in 1..(Len(cmd) - 1) : cmd[i] = "--name" => cmd[i + 1] = named
           /\ (AfterBuild /\ success = "true" /\ Copied)
              => Exists(fs, self.output_dir \o <<named>>)

C8_Witness ==
    /\ cmd # <<>>
    /\ host.platform = "linux" /\ host.arch = "aarch64"
    /\ success = "true"
    /\ InLog("copy2")
    /\ Exists(fs, self.output_dir \o <<self.binary_name \o "-linux-aarch64">>)

\* C9: the cleanup runs only if --clean was given and build has already
\* completed and returned success; never before the build, never after a
\* failed build, never without --clean.
C9_CleanOnlyAfterSuccess ==
    \A i \in 1..Len(log) :
        log[i] = "clean"
        => /\ args.clean
           /\ success = "true"
           /\ tool.status = "ok"
           /\ \E j \in 1..(i - 1) : log[j] = "pyinstaller"
           /\ \A j \in 1..Len(log) : log[j] = "clean" => j = i
           /\ pc \in {"exit", "done"}

C9_Witness ==
    /\ pc = "done"
    /\ InLog("clean")
    /\ args.clean
    /\ exitCode = 0

\* C10: for every output directory, after a run with --clean in which the
\* build succeeded and the artifact was relocated, the artifact at
\* <output-dir>/<name><suffix> and its version.json still exist at exit.
C10_CleanKeepsOutputs ==
    (/\ pc = "done"
     /\ exitCode = 0
     /\ InLog("clean")
     /\ success = "true"
     /\ Copied
     /\ InLog("write_version"))
    => (Exists(fs, Dest) /\ Exists(fs, VersionFile))

=============================================================================
